---------------------------- MODULE Spec2Model ----------------------------
(***************************************************************************)
(* A model of github.com/rbranson/chain: the Holder and Link primitives,   *)
(* Build, Unwrap, and the Is / As traversals, together with the part of    *)
(* the x package (Nil, ValueOf, MakeTypeExample, AssignableFrom) and of    *)
(* Go's interface semantics (==, reflect.DeepEqual, reflect.TypeOf) they   *)
(* rest on.                                                                *)
(*                                                                         *)
(* A boxed Go value (interface{}) is a record with a kind k:               *)
(*   [k |-> "nil"]                 the literal nil (no dynamic type)       *)
(*   [k |-> "string", s |-> ..]    a string                                *)
(*   [k |-> "slice", nil |-> b]    a []int, nil or empty non-nil           *)
(*   [k |-> "ptr", addr |-> n]     a *T; addr 0 is the nil pointer, the    *)
(*                                 others point to equal T structs         *)
(*   [k |-> "map"|"chan"|"func", nil |-> TRUE]  nil values of those kinds  *)
(*   [k |-> "link", id |-> n]      a *Link, the object heap[n]; id 0 is    *)
(*                                 the nil *Link                           *)
(*   [k |-> "buildLink", id |-> n] a *buildLink, the object heap[n]        *)
(*   [k |-> "asMatcher"]           the test's *asMatcher{to: &"h"}         *)
(*   [k |-> "ref", t |-> type]     a pointer to the variable slot, which   *)
(*                                 has the declared type t                 *)
(***************************************************************************)
EXTENDS Naturals, Sequences, FiniteSets

VARIABLES
    heap,     \* id -> Link struct: every Link and buildLink object allocated
    holder,   \* a standalone Holder
    setLog,   \* history: the arguments of the Set calls on holder, in order
    wrapLog,  \* history: per Link id, the arguments of its Wrap calls
    ret,      \* the result of the last primitive call (Get, Unwrap, Wrap)
    built,    \* the last Build call: its arguments, result, objects before it
    walk,     \* the values a client reached from Build's result by Unwrap
    trav,     \* the Is or As call in progress or last finished
    slot      \* the variable an As target points to

vars == <<heap, holder, setLog, wrapLog, ret, built, walk, trav, slot>>

---------------------------------------------------------------------------
(* Bounds *)

\* The longest argument list given to Build.
MaxLen == 3

\* The number of Link objects the client allocates itself (&chain.Link{}).
NLinks == 2

---------------------------------------------------------------------------
(* Values *)

NilV == [k |-> "nil"]

Str(s) == [k |-> "string", s |-> s]

SliceV(isNil) == [k |-> "slice", nil |-> isNil]

PtrV(a) == [k |-> "ptr", addr |-> a]

NilOf(kind) == [k |-> kind, nil |-> TRUE]

LinkV(i) == [k |-> "link", id |-> i]

BuildLinkV(i) == [k |-> "buildLink", id |-> i]

AsM == [k |-> "asMatcher"]

Ref(t) == [k |-> "ref", t |-> t]

\* reflect.TypeOf(v); "nil" stands for the nil reflect.Type of a literal nil.
TypeOf(v) ==
    CASE v.k = "nil"       -> "nil"
      [] v.k = "string"    -> "string"
      [] v.k = "slice"     -> "[]int"
      [] v.k = "ptr"       -> "*T"
      [] v.k = "map"       -> "map[string]int"
      [] v.k = "chan"      -> "chan int"
      [] v.k = "func"      -> "func()"
      [] v.k = "link"      -> "*Link"
      [] v.k = "buildLink" -> "*buildLink"
      [] v.k = "asMatcher" -> "*asMatcher"
      [] v.k = "ref"       -> "*" \o v.t

\* The reflect.Kind of v's dynamic type; a literal nil has none.
KindOf(v) ==
    CASE v.k \in {"string", "slice", "map", "chan", "func"} -> v.k
      [] v.k = "nil" -> "invalid"
      [] OTHER -> "ptr"

\* reflect.Value.IsNil() for the nillable kinds.
IsNilRv(v) ==
    CASE v.k \in {"slice", "map", "chan", "func"} -> v.nil
      [] v.k = "ptr" -> v.addr = 0
      [] v.k = "link" -> v.id = 0
      [] OTHER -> FALSE

\* x.ValueOf(v): its ok result (the reflect.Value itself is v).
ValueOfOk(v) ==
    IF v = NilV THEN FALSE
    ELSE IF KindOf(v) \in {"chan", "func", "map", "ptr", "slice"} /\ IsNilRv(v)
         THEN FALSE
         ELSE TRUE

\* x.Nil(v)
Nil(v) == ~ValueOfOk(v)

\* x.MakeTypeExample(example): the pointee type, or the error for a
\* non-pointer example.
MakeTypeExample(example) ==
    IF KindOf(example) # "ptr"
    THEN [err |-> "must be a pointer", t |-> ""]
    ELSE [err |-> "",
          t |-> CASE example.k = "ref"       -> example.t
                  [] example.k = "ptr"       -> "T"
                  [] example.k = "link"      -> "Link"
                  [] example.k = "buildLink" -> "buildLink"
                  [] example.k = "asMatcher" -> "asMatcher"]

\* TypeExample.AssignableFrom(other): other.AssignableTo(e.t).  A literal
\* nil has the nil reflect.Type, and the method call on it is a nil
\* dereference.  "any" is interface{}, which every type is assignable to.
AssignableFrom(t, other) ==
    IF other = "nil" THEN "panic"
    ELSE IF other = t \/ t = "any" THEN "true"
    ELSE "false"

\* Go's == on two interface values: equal dynamic types and equal values; a
\* run-time panic when the common dynamic type is not comparable.
GoEq(a, b) ==
    IF TypeOf(a) # TypeOf(b) THEN "false"
    ELSE IF a.k \in {"slice", "map", "func"} THEN "panic"
    ELSE IF a = b THEN "true" ELSE "false"


\* reflect.DeepEqual(a, b) over the objects of hp.  seen holds the pairs of
\* objects under comparison (DeepEqual's visited map).
RECURSIVE DeepEq(_, _, _, _)
DeepEq(hp, a, b, seen) ==
    IF a = NilV \/ b = NilV THEN a = b
    ELSE IF TypeOf(a) # TypeOf(b) THEN FALSE
    ELSE CASE a.k = "ptr" -> a.addr = b.addr \/ (a.addr # 0 /\ b.addr # 0)
           [] a.k \in {"link", "buildLink"} ->
                \/ a.id = b.id
                \/ <<a.id, b.id>> \in seen
                \/ LET s2 == seen \cup {<<a.id, b.id>>}
                       x == hp[a.id]
                       y == hp[b.id]
                   IN  /\ DeepEq(hp, x.h.Value, y.h.Value, s2)
                       /\ x.h.Ok = y.h.Ok
                       /\ DeepEq(hp, x.v, y.v, s2)
           [] OTHER -> a = b

DeepEqual(hp, a, b) == DeepEq(hp, a, b, {})

---------------------------------------------------------------------------
(* Holder and Link *)

ZeroHolder == [Value |-> NilV, Ok |-> FALSE]

ZeroLink == [h |-> ZeroHolder, v |-> NilV]

\* (*Holder).Set
HolderSet(h, v) == [h EXCEPT !.Value = v, !.Ok = TRUE]

\* Get with the bug of telling "never set" by the value being nil.
HolderGetNilMeansUnset(h) ==
    IF h.Value = NilV THEN [v |-> NilV, ok |-> FALSE]
    ELSE [v |-> h.Value, ok |-> TRUE]

\* (*Holder).Get
HolderGet(h) ==
    IF ~h.Ok THEN [v |-> NilV, ok |-> FALSE]
    ELSE [v |-> h.Value, ok |-> TRUE]

\* Hold(v)
Hold(v) == HolderSet(ZeroHolder, v)

\* (*Link).Set: the Link after the call.
LinkSet(l, v) == [l EXCEPT !.v = v]

\* (*Link).Unwrap
LinkUnwrap(l) == HolderGet(l.h)

\* (*Link).Wrap: the Link after the call and the boolean returned.
LinkWrap(l, v) == [link |-> [l EXCEPT !.h = HolderSet(l.h, v)], ok |-> TRUE]

\* (*Link).Is: l.v == target, on interface values.
LinkIs(l, target) == GoEq(l.v, target)

\* The values whose type has the Unwrap, Is and Wrap methods: *Link, and
\* *buildLink, which forwards each to its embedded Link.
IsLinkKind(v) == v.k \in {"link", "buildLink"}

\* chain.Unwrap(v)
Unwrap(hp, v) ==
    IF ~IsLinkKind(v) THEN [v |-> NilV, ok |-> FALSE]
    ELSE LinkUnwrap(hp[v.id])

---------------------------------------------------------------------------
(* Build *)

PanicBuildZero == "chain: Build called with zero arguments"

PanicWrap == "Link.Wrap should always return true"

\* A new object: its id and the heap holding it.
Alloc(hp, l) ==
    LET id == Cardinality(DOMAIN hp) + 1
    IN  [id |-> id,
         heap |-> [i \in DOMAIN hp \cup {id} |-> IF i = id THEN l ELSE hp[i]]]

\* Build's loop body with the bug of never using the element's own Wrap.
BuildOneAlwaysWraps(hp, src, dst) ==
    LET link == LinkWrap(LinkSet(ZeroLink, dst), src)
        a    == Alloc(hp, link.link)
    IN  [heap |-> a.heap, src |-> BuildLinkV(a.id), panic |-> ""]

\* Build's loop body with the bug of passing dst, not src, to Wrap.
BuildOneWrapsSelf(hp, src, dst) ==
    LET w == IF IsLinkKind(dst) THEN LinkWrap(hp[dst.id], dst)
             ELSE [link |-> ZeroLink, ok |-> FALSE]
    IN  IF IsLinkKind(dst) /\ w.ok
        THEN [heap |-> [hp EXCEPT ![dst.id] = w.link], src |-> dst,
              panic |-> ""]
        ELSE LET link == LinkWrap(LinkSet(ZeroLink, dst), src)
                 a    == Alloc(hp, link.link)
             IN  [heap |-> a.heap, src |-> BuildLinkV(a.id), panic |-> ""]

\* One pass of Build's loop body, for dst = vals[i].
BuildOne(hp, src, dst) ==
    LET w == IF IsLinkKind(dst) THEN LinkWrap(hp[dst.id], src)
             ELSE [link |-> ZeroLink, ok |-> FALSE]
    IN  IF IsLinkKind(dst) /\ w.ok
        THEN [heap |-> [hp EXCEPT ![dst.id] = w.link], src |-> dst,
              panic |-> ""]
        ELSE LET link == LinkWrap(LinkSet(ZeroLink, dst), src)
                 a    == Alloc(hp, link.link)
             IN  IF ~link.ok
                 THEN [heap |-> a.heap, src |-> src, panic |-> PanicWrap]
                 ELSE [heap |-> a.heap, src |-> BuildLinkV(a.id), panic |-> ""]

RECURSIVE BuildLoop(_, _, _, _)
BuildLoop(hp, vals, i, src) ==
    IF i > Len(vals) THEN [heap |-> hp, ret |-> src, panic |-> ""]
    ELSE LET r == BuildOne(hp, src, vals[i])
         IN  IF r.panic # ""
             THEN [heap |-> r.heap, ret |-> NilV, panic |-> r.panic]
             ELSE BuildLoop(r.heap, vals, i + 1, r.src)

\* chain.Build(vals...): the heap after the call and the value returned, or
\* the panic.
Build(hp, vals) ==
    CASE Len(vals) = 0 -> [heap |-> hp, ret |-> NilV, panic |-> PanicBuildZero]
      [] Len(vals) = 1 -> [heap |-> hp, ret |-> vals[1], panic |-> ""]
      [] OTHER -> BuildLoop(hp, vals, 2, vals[1])


---------------------------------------------------------------------------
(* Is *)

PanicUncomparable == "runtime error: comparing uncomparable type"

\* The loop body of Is with the bug of taking any two nils for a match.
IsNodeAnyNil(hp, v, target) ==
    IF Nil(v) /\ Nil(target)
    THEN [out |-> "true", next |-> v, msg |-> ""]
    ELSE LET isv == IF IsLinkKind(v) THEN LinkIs(hp[v.id], target) ELSE "false"
             u   == Unwrap(hp, v)
         IN  CASE isv = "panic" ->
                    [out |-> "panic", next |-> v, msg |-> PanicUncomparable]
               [] isv = "true" \/ DeepEqual(hp, v, target) ->
                    [out |-> "true", next |-> v, msg |-> ""]
               [] OTHER ->
                    IF u.ok THEN [out |-> "next", next |-> u.v, msg |-> ""]
                    ELSE [out |-> "false", next |-> v, msg |-> ""]

\* One pass of the loop of chain.Is at node v: the call returns (out "true" or
\* "false"), panics, or goes on at v's predecessor (out "next").
IsNode(hp, v, target) ==
    IF Nil(v) /\ Nil(target)
    THEN [out |-> IF TypeOf(v) = TypeOf(target) THEN "true" ELSE "false",
          next |-> v, msg |-> ""]
    ELSE LET isv == IF IsLinkKind(v) THEN LinkIs(hp[v.id], target) ELSE "false"
             u   == Unwrap(hp, v)
         IN  CASE isv = "panic" ->
                    [out |-> "panic", next |-> v, msg |-> PanicUncomparable]
               [] isv = "true" -> [out |-> "true", next |-> v, msg |-> ""]
               [] isv = "false" /\ DeepEqual(hp, v, target) ->
                    [out |-> "true", next |-> v, msg |-> ""]
               [] OTHER ->
                    IF u.ok THEN [out |-> "next", next |-> u.v, msg |-> ""]
                    ELSE [out |-> "false", next |-> v, msg |-> ""]

---------------------------------------------------------------------------
(* As *)

PanicNilTarget == "chain: target must not be nil"

PanicNilDeref == "runtime error: invalid memory address or nil pointer dereference"

\* The checks of As with the bug of testing for a pointer first.
AsPrePointerFirst(target) ==
    IF KindOf(target) # "ptr" THEN "chain: target must be a pointer"
    ELSE IF ~ValueOfOk(target) THEN PanicNilTarget
    ELSE ""

\* The checks chain.As makes before its loop: the panic message, or "".
AsPre(target) ==
    IF ~ValueOfOk(target) THEN PanicNilTarget
    ELSE IF MakeTypeExample(target).err # ""
         THEN "chain: target " \o MakeTypeExample(target).err
         ELSE ""

\* The pointee of the test's asMatcher.to, a *string.
AsMTo == Str("h")

\* (*asMatcher).As(other): reflect.DeepEqual(other, m.to) of two pointers, and
\* no write.  s is the value of the variable other points to.
AsMatcherAs(other, s) == TypeOf(other) = "*string" /\ s = AsMTo

\* chain.As(v, target), with s the value of the variable target points to:
\*   AsCall is the whole call, AsLoop its loop from node v on, AsNode one pass
\*   of the loop at node v.
\* stack holds the values of the As calls this one is nested in (through
\* Link.As), seen the nodes this call's loop has passed; a call or a pass
\* that repeats never returns (res "diverge").
RECURSIVE AsCall(_, _, _, _, _)
RECURSIVE AsLoop(_, _, _, _, _, _)
RECURSIVE AsNode(_, _, _, _, _)

\* (*Link).As: As(l.v, target)
LinkAs(hp, l, target, s, stack) == AsCall(hp, l.v, target, s, stack)

\* The hook of node v, as As calls it.
AsHook(hp, v, target, s, stack) ==
    CASE IsLinkKind(v) -> LinkAs(hp, hp[v.id], target, s, stack)
      [] v.k = "asMatcher" ->
           [res |-> IF AsMatcherAs(target, s) THEN "true" ELSE "false",
            slot |-> s, msg |-> ""]
      [] OTHER -> [res |-> "false", slot |-> s, msg |-> ""]

\* The loop body of As with the bug of storing a node that has no
\* predecessor whether or not it matched.
AsNodeWritesLast(hp, v, target, s, stack) ==
    LET a == AssignableFrom(MakeTypeExample(target).t, TypeOf(v))
        h == AsHook(hp, v, target, s, stack)
        u == Unwrap(hp, v)
    IN  CASE a = "panic" ->
               [out |-> "panic", slot |-> s, next |-> v, msg |-> PanicNilDeref]
          [] a = "true" -> [out |-> "true", slot |-> v, next |-> v, msg |-> ""]
          [] a = "false" /\ h.res = "true" ->
               [out |-> "true", slot |-> h.slot, next |-> v, msg |-> ""]
          [] a = "false" /\ h.res \in {"panic", "diverge"} ->
               [out |-> h.res, slot |-> h.slot, next |-> v, msg |-> h.msg]
          [] OTHER ->
               IF u.ok
               THEN [out |-> "next", slot |-> h.slot, next |-> u.v, msg |-> ""]
               ELSE [out |-> "false", slot |-> v, next |-> v, msg |-> ""]

\* The loop body of As with the bug of returning false as soon as a hook
\* returned false.
AsNodeStopsAtHook(hp, v, target, s, stack) ==
    LET a == AssignableFrom(MakeTypeExample(target).t, TypeOf(v))
        h == AsHook(hp, v, target, s, stack)
        u == Unwrap(hp, v)
    IN  CASE a = "panic" ->
               [out |-> "panic", slot |-> s, next |-> v, msg |-> PanicNilDeref]
          [] a = "true" -> [out |-> "true", slot |-> v, next |-> v, msg |-> ""]
          [] a = "false" /\ h.res = "true" ->
               [out |-> "true", slot |-> h.slot, next |-> v, msg |-> ""]
          [] a = "false" /\ h.res \in {"panic", "diverge"} ->
               [out |-> h.res, slot |-> h.slot, next |-> v, msg |-> h.msg]
          [] OTHER ->
               IF u.ok /\ ~(IsLinkKind(v) \/ v.k = "asMatcher")
               THEN [out |-> "next", slot |-> h.slot, next |-> u.v, msg |-> ""]
               ELSE [out |-> "false", slot |-> h.slot, next |-> v, msg |-> ""]

AsNode(hp, v, target, s, stack) ==
    LET a == AssignableFrom(MakeTypeExample(target).t, TypeOf(v))
        h == AsHook(hp, v, target, s, stack)
        u == Unwrap(hp, v)
    IN  CASE a = "panic" ->
               [out |-> "panic", slot |-> s, next |-> v, msg |-> PanicNilDeref]
          [] a = "true" -> [out |-> "true", slot |-> v, next |-> v, msg |-> ""]
          [] a = "false" /\ h.res = "true" ->
               [out |-> "true", slot |-> h.slot, next |-> v, msg |-> ""]
          [] a = "false" /\ h.res \in {"panic", "diverge"} ->
               [out |-> h.res, slot |-> h.slot, next |-> v, msg |-> h.msg]
          [] OTHER ->
               IF u.ok
               THEN [out |-> "next", slot |-> h.slot, next |-> u.v, msg |-> ""]
               ELSE [out |-> "false", slot |-> h.slot, next |-> v, msg |-> ""]

AsLoop(hp, v, target, s, stack, seen) ==
    IF v \in seen THEN [res |-> "diverge", slot |-> s, msg |-> ""]
    ELSE LET r == AsNode(hp, v, target, s, stack)
         IN  IF r.out = "next"
             THEN AsLoop(hp, r.next, target, r.slot, stack, seen \cup {v})
             ELSE [res |-> r.out, slot |-> r.slot, msg |-> r.msg]

AsCall(hp, v, target, s, stack) ==
    IF v \in stack THEN [res |-> "diverge", slot |-> s, msg |-> ""]
    ELSE IF AsPre(target) # ""
         THEN [res |-> "panic", slot |-> s, msg |-> AsPre(target)]
         ELSE AsLoop(hp, v, target, s, stack \cup {v}, {})


---------------------------------------------------------------------------
(* The values the calls are made with *)

\* Values of types with none of the four methods.
PlainVals == {NilV, Str("a"), Str("b"), SliceV(TRUE), PtrV(1)}

\* The client's own Link objects.
Links == {LinkV(i) : i \in 1..NLinks}

\* Arguments of Build in the runs with Links: Links, a plain value, and the
\* test's asMatcher.
LinkVals == Links \cup {Str("a"), AsM}

\* Arguments of Holder.Set, Link.Set and Link.Wrap.
PrimVals == {NilV, Str("a"), SliceV(TRUE)}

HeldVals == {Str("b")}

IsTargets == PlainVals \cup {PtrV(0), PtrV(2)}

LinkIsTargets == {Str("b")}

\* The pointers to a variable that As is given.
Refs == {Ref("string"), Ref("[]int"), Ref("*T"), Ref("any")}

AsTargets ==
    Refs \cup {NilV, PtrV(0), SliceV(TRUE), NilOf("map"), NilOf("chan"),
               NilOf("func"), Str("a")}

LinkAsTargets == {Ref("string"), Ref("*Link")}

\* The values the variable behind a target holds before the call.
SlotInits(target) ==
    IF target.k # "ref" THEN {NilV}
    ELSE CASE target.t = "string" -> {Str("z"), Str("h")}
           [] target.t = "[]int"  -> {SliceV(FALSE)}
           [] target.t = "*T"     -> {PtrV(0)}
           [] target.t = "*Link"  -> {LinkV(0)}
           [] target.t = "any"    -> {NilV}

Lists(S, n) == UNION {[1..m -> S] : m \in 0..n}

Last(q) == q[Len(q)]

\* A walk or traversal is followed for one step more than Build had
\* arguments: a chain Build made of values that wrapped nothing before has
\* at most that many nodes unless it closes on itself.
StepCap == Len(built.vals) + 1

---------------------------------------------------------------------------
(* State *)

NoLog == [any |-> FALSE, last |-> NilV]

Idle ==
    [op |-> "none", start |-> NilV, cur |-> NilV, target |-> NilV,
     seen |-> <<>>, res |-> "", msg |-> "", slot0 |-> NilV]

Init ==
    /\ heap = [i \in 1..NLinks |-> ZeroLink]
    /\ holder = ZeroHolder
    /\ setLog = NoLog
    /\ wrapLog = [i \in 1..NLinks |-> NoLog]
    /\ ret = [op |-> "none"]
    /\ built = [done |-> FALSE, vals |-> <<>>, ret |-> NilV, panic |-> "",
                pre |-> [i \in 1..NLinks |-> ZeroLink]]
    /\ walk = <<>>
    /\ trav = Idle
    /\ slot = NilV

---------------------------------------------------------------------------
(* Calls on a Holder and on a Link *)

\* h.Set(v)
HolderSetCall(v) ==
    /\ holder' = HolderSet(holder, v)
    /\ setLog' = [any |-> TRUE, last |-> v]
    /\ ret' = [op |-> "Set"]
    /\ UNCHANGED <<heap, wrapLog, built, walk, trav, slot>>

\* h = Hold(v)
HoldCall(v) ==
    /\ holder' = Hold(v)
    /\ setLog' = [any |-> TRUE, last |-> v]
    /\ ret' = [op |-> "Hold"]
    /\ UNCHANGED <<heap, wrapLog, built, walk, trav, slot>>

\* h.Get()
HolderGetCall ==
    /\ ret' = [op |-> "Get", v |-> HolderGet(holder).v, ok |-> HolderGet(holder).ok]
    /\ UNCHANGED <<heap, holder, setLog, wrapLog, built, walk, trav, slot>>

\* heap[i].Set(v), before any Build
LinkSetCall(i, v) ==
    /\ ~built.done
    /\ heap' = [heap EXCEPT ![i] = LinkSet(heap[i], v)]
    /\ ret' = [op |-> "LinkSet", id |-> i]
    /\ UNCHANGED <<holder, setLog, wrapLog, built, walk, trav, slot>>

\* heap[i].Wrap(v), before any Build
LinkWrapCall(i, v) ==
    /\ ~built.done
    /\ heap' = [heap EXCEPT ![i] = LinkWrap(heap[i], v).link]
    /\ wrapLog' = [wrapLog EXCEPT ![i] = [any |-> TRUE, last |-> v]]
    /\ ret' = [op |-> "Wrap", id |-> i, ok |-> LinkWrap(heap[i], v).ok]
    /\ UNCHANGED <<holder, setLog, built, walk, trav, slot>>

\* heap[i].Unwrap()
LinkUnwrapCall(i) ==
    /\ ~built.done
    /\ ret' = [op |-> "LinkUnwrap", id |-> i, v |-> LinkUnwrap(heap[i]).v,
               ok |-> LinkUnwrap(heap[i]).ok]
    /\ UNCHANGED <<heap, holder, setLog, wrapLog, built, walk, trav, slot>>

---------------------------------------------------------------------------
(* Build, Unwrap, Is, As *)

\* c = Build(vals...), once
BuildCall(vals) ==
    /\ ~built.done
    /\ LET r == Build(heap, vals)
       IN  /\ heap' = r.heap
           /\ built' = [done |-> TRUE, vals |-> vals, ret |-> r.ret,
                        panic |-> r.panic, pre |-> heap]
           /\ walk' = IF r.panic = "" THEN <<r.ret>> ELSE <<>>
    /\ ret' = [op |-> "Build"]
    /\ UNCHANGED <<holder, setLog, wrapLog, trav, slot>>

\* The client unwraps the value it holds once more: v, ok = Unwrap(v).
UnwrapCall ==
    /\ walk # <<>>
    /\ trav.res # "run"
    /\ Len(walk) < StepCap
    /\ LET u == Unwrap(heap, Last(walk))
       IN  /\ ret' = [op |-> "Unwrap", v |-> u.v, ok |-> u.ok]
           /\ walk' = IF u.ok THEN Append(walk, u.v) ELSE walk
    /\ trav' = Idle
    /\ UNCHANGED <<heap, holder, setLog, wrapLog, built, slot>>

\* Is(v, target) is called on the value the client holds.
IsStart(target) ==
    /\ walk # <<>>
    /\ trav.op = "none"
    /\ trav' = [Idle EXCEPT !.op = "Is", !.start = Last(walk),
                            !.cur = Last(walk), !.target = target,
                            !.res = "run"]
    /\ ret' = [op |-> "Is"]
    /\ UNCHANGED <<heap, holder, setLog, wrapLog, built, walk, slot>>

\* One pass of the loop of Is.
IsStep ==
    /\ trav.op = "Is"
    /\ trav.res = "run"
    /\ Len(trav.seen) < StepCap
    /\ LET r == IsNode(heap, trav.cur, trav.target)
       IN  trav' = [trav EXCEPT !.seen = Append(@, trav.cur),
                                !.cur = r.next,
                                !.res = IF r.out = "next" THEN "run" ELSE r.out,
                                !.msg = r.msg]
    /\ UNCHANGED <<heap, holder, setLog, wrapLog, ret, built, walk, slot>>

\* As(v, target) is called on the value the client holds, with the variable
\* behind target holding s0: the checks before the loop.
AsStart(target, s0) ==
    /\ walk # <<>>
    /\ trav.op = "none"
    /\ slot' = s0
    /\ trav' = [Idle EXCEPT !.op = "As", !.start = Last(walk),
                            !.cur = Last(walk), !.target = target,
                            !.res = IF AsPre(target) # "" THEN "panic" ELSE "run",
                            !.msg = AsPre(target), !.slot0 = s0]
    /\ ret' = [op |-> "As"]
    /\ UNCHANGED <<heap, holder, setLog, wrapLog, built, walk>>

\* One pass of the loop of As.
AsStep ==
    /\ trav.op = "As"
    /\ trav.res = "run"
    /\ Len(trav.seen) < StepCap
    /\ LET r == AsNode(heap, trav.cur, trav.target, slot, {trav.start})
       IN  /\ slot' = r.slot
           /\ trav' = [trav EXCEPT !.seen = Append(@, trav.cur),
                                   !.cur = r.next,
                                   !.res = IF r.out = "next" THEN "run" ELSE r.out,
                                   !.msg = r.msg]
    /\ UNCHANGED <<heap, holder, setLog, wrapLog, ret, built, walk>>

---------------------------------------------------------------------------
(* Specifications *)

\* Chains built from plain values.
Next ==
    \/ \E vals \in Lists(PlainVals, MaxLen) : BuildCall(vals)
    \/ UnwrapCall
    \/ \E t \in IsTargets : IsStart(t)
    \/ IsStep
    \/ \E t \in AsTargets : \E s0 \in SlotInits(t) : AsStart(t, s0)
    \/ AsStep

Spec == Init /\ [][Next]_vars

\* Chains built from the client's Links, a plain value and an asMatcher.
NextLink ==
    \/ \E i \in 1..NLinks : \E v \in HeldVals : LinkSetCall(i, v)
    \/ \E vals \in Lists(LinkVals, MaxLen) : BuildCall(vals)
    \/ UnwrapCall
    \/ \E t \in LinkIsTargets : IsStart(t)
    \/ IsStep
    \/ \E t \in LinkAsTargets : \E s0 \in SlotInits(t) : AsStart(t, s0)
    \/ AsStep

SpecLink == Init /\ [][NextLink]_vars

\* The Holder and Link primitives alone.
NextPrim ==
    \/ \E v \in PrimVals : HolderSetCall(v)
    \/ \E v \in PrimVals : HoldCall(v)
    \/ HolderGetCall
    \/ \E i \in 1..NLinks : \E v \in PrimVals : LinkSetCall(i, v)
    \/ \E i \in 1..NLinks : \E v \in PrimVals \cup {LinkV(1)} : LinkWrapCall(i, v)
    \/ \E i \in 1..NLinks : LinkUnwrapCall(i)

SpecPrim == Init /\ [][NextPrim]_vars


---------------------------------------------------------------------------
(* Properties *)

\* The number of arguments of the Build call.
N == Len(built.vals)

\* Semantically nil: a literal nil, or a nil chan, func, map, pointer, slice.
SemNil(v) ==
    v \in {NilV, PtrV(0), SliceV(TRUE), NilOf("map"), NilOf("chan"),
           NilOf("func"), LinkV(0)}

MaxOf(S) == CHOOSE i \in S : \A j \in S : j <= i

Distinct(q) == \A i, j \in 1..Len(q) : i # j => q[i] # q[j]

\* An Is or As call on the chain Build returned has ended.
IsEnded == trav.op = "Is" /\ trav.res # "run"

AsEnded == trav.op = "As" /\ trav.res # "run"

\* C1: for a chain c built from plain values and a plain target t,
\* Is(c, t) is true if and only if t equals an element of vals.  Stated in
\* the reading most favourable to the code: an element identical to t makes
\* Is true, and Is is true only if some element is deeply equal to t.
C1_IsIffMember ==
    (IsEnded /\ Len(walk) = 1) =>
        /\ (\E i \in 1..N : built.vals[i] = trav.target) => trav.res = "true"
        /\ trav.res = "true" =>
               \E i \in 1..N : DeepEqual(heap, built.vals[i], trav.target)

\* C2: for a chain c built from plain values v1..vn, As from the k-th unwrap
\* of c into a variable of a concrete type (string, []int, *T) stores the
\* element of that type with the largest index among v1..v(n-k).
C2_AsLargestIndex ==
    (AsEnded /\ trav.target \in {Ref("string"), Ref("[]int"), Ref("*T")}) =>
        LET cand == {i \in 1..(N - (Len(walk) - 1)) :
                        TypeOf(built.vals[i]) = trav.target.t}
        IN  cand # {} =>
                /\ trav.res = "true"
                /\ slot = built.vals[MaxOf(cand)]

\* The type of x is assignable to the type of the variable behind the target.
Fits(x) == AssignableFrom(MakeTypeExample(trav.target).t, TypeOf(x)) = "true"

\* C3: As writes into the variable behind its target exactly when it returns
\* true: after false the variable holds what it held before the call, after
\* true it holds the matched value: the node As stopped at when its type is
\* assignable, else the value that node holds (Link.As), or, for an
\* asMatcher, the value its hook compared the variable with.
C3_AsWritesIffTrue ==
    AsEnded =>
        /\ trav.res = "false" => slot = trav.slot0
        /\ trav.res = "true" =>
            LET c == trav.cur
            IN  \/ Fits(c) /\ slot = c
                \/ ~Fits(c) /\ IsLinkKind(c) /\ Fits(heap[c.id].v)
                     /\ slot = heap[c.id].v
                \/ ~Fits(c) /\ (c = AsM \/ (IsLinkKind(c) /\ heap[c.id].v = AsM))
                     /\ slot = AsMTo /\ slot = trav.slot0

\* C3 witness: As returned true at the second node of a chain and the
\* variable changed.
C3_Witness ==
    /\ AsEnded /\ trav.res = "true" /\ Len(trav.seen) = 2
    /\ slot # trav.slot0

\* The As hook of node x (Link.As, asMatcher.As) was called by the As call in
\* progress and returned false.
HookFalse(x) ==
    /\ AssignableFrom(MakeTypeExample(trav.target).t, TypeOf(x)) = "false"
    /\ \/ IsLinkKind(x)
          /\ LinkAs(heap, heap[x.id], trav.target, trav.slot0,
                    {trav.start}).res = "false"
       \/ x = AsM /\ ~AsMatcherAs(trav.target, trav.slot0)

AsRunning == trav.op = "As" /\ AsPre(trav.target) = ""

\* C4, as claimed: when As reaches a node whose As hook returns false, the
\* variable is untouched, no predecessor of the node is examined, and As
\* returns false.
C4_StopsAtNode ==
    AsRunning =>
        \A j \in 1..Len(trav.seen) :
            HookFalse(trav.seen[j]) =>
                /\ j = Len(trav.seen)
                /\ trav.res = "false"
                /\ slot = trav.slot0

\* C4, amended: when As reaches a node whose As hook returns false, the
\* variable is untouched by that node and As goes on to the node's
\* predecessor; it returns false there only if the node has no predecessor.
C4_AdvancesPastNode ==
    AsRunning =>
        \A j \in 1..Len(trav.seen) :
            HookFalse(trav.seen[j]) =>
                LET u == Unwrap(heap, trav.seen[j])
                IN  IF u.ok
                    THEN IF j < Len(trav.seen)
                         THEN trav.seen[j + 1] = u.v
                         ELSE /\ trav.res = "run"
                              /\ trav.cur = u.v
                              /\ slot = trav.slot0
                    ELSE /\ j = Len(trav.seen)
                         /\ trav.res = "false"
                         /\ slot = trav.slot0

\* C4 witness: the hook of the first node returned false, and As found its
\* match at that node's predecessor.
C4_Witness ==
    /\ AsRunning /\ Len(trav.seen) = 2
    /\ HookFalse(trav.seen[1])
    /\ trav.res = "true" /\ slot = trav.seen[2]

\* C5: Build with no argument panics with its message and changes nothing;
\* As with a semantically nil target panics with "must not be nil", whatever
\* v is, also when the target is no pointer; As with a non-nil target that is
\* no pointer panics with "must be a pointer"; no node is examined and the
\* variable is not written.
C5_ContractPanics ==
    /\ (built.done /\ N = 0) =>
           /\ built.panic = "chain: Build called with zero arguments"
           /\ heap = built.pre
    /\ (trav.op = "As" /\ SemNil(trav.target)) =>
           /\ trav.res = "panic"
           /\ trav.msg = "chain: target must not be nil"
           /\ trav.seen = <<>>
           /\ slot = trav.slot0
    /\ (trav.op = "As" /\ ~SemNil(trav.target)
          /\ trav.target.k \in {"string", "slice", "map", "chan", "func"}) =>
           /\ trav.res = "panic"
           /\ trav.msg = "chain: target must be a pointer"
           /\ trav.seen = <<>>
           /\ slot = trav.slot0

\* C5 witness: As was called on an unwrapped node with a nil slice, which is
\* both nil and no pointer.
C5_Witness ==
    /\ trav.op = "As" /\ trav.target = SliceV(TRUE) /\ Len(walk) = 2
    /\ trav.res = "panic"

\* C6: Build with arguments, Is, and As with a non-nil pointer target never
\* panic.
C6_OnlyContractPanics ==
    /\ (built.done /\ N >= 1) => built.panic = ""
    /\ trav.op = "Is" => trav.res # "panic"
    /\ (trav.op = "As" /\ trav.target.k = "ref") => trav.res # "panic"

\* The node Build made for its i-th argument val: val itself for the first
\* argument and for a Link (whose Wrap returned true), else a buildLink that
\* did not exist before the call and holds val.
NodeFor(node, val, i) ==
    IF i = 1 \/ IsLinkKind(val) THEN node = val
    ELSE /\ node.k = "buildLink"
         /\ node.id \notin DOMAIN built.pre
         /\ heap[node.id].v = val

\* C7: Build of one value returns it; for n pairwise distinct values, the
\* k-th value reached from the result by Unwrap is the node of argument
\* n+1-k, the walk reaches all n of them and, when the first argument had no
\* predecessor, ends there; Build allocates one node per argument after the
\* first that is no Link, and none when all are Links.
C7_BuildNodes ==
    (built.done /\ built.panic = "" /\ Distinct(built.vals)) =>
        /\ N = 1 => built.ret = built.vals[1]
        /\ walk # <<>> /\ walk[1] = built.ret
        /\ \A k \in 1..Len(walk) :
               k <= N => NodeFor(walk[k], built.vals[N + 1 - k], N + 1 - k)
        /\ Len(walk) < N => Unwrap(heap, Last(walk)).ok
        /\ ~Unwrap(built.pre, built.vals[1]).ok =>
               /\ Len(walk) <= N
               /\ Len(walk) = N => ~Unwrap(heap, Last(walk)).ok
        /\ Cardinality(DOMAIN heap) - Cardinality(DOMAIN built.pre)
               = Cardinality({i \in 2..N : ~IsLinkKind(built.vals[i])})

\* C7 witness: three distinct arguments, a plain value between two Links,
\* walked to the end.
C7_Witness ==
    /\ built.done /\ N = 3 /\ Len(walk) = 3
    /\ built.vals = <<LinkV(1), Str("a"), LinkV(2)>>
    /\ walk[3] = LinkV(1)

\* The arguments of Build are plain values and Links that wrapped nothing
\* before the call.
C8_Args ==
    /\ built.done /\ N >= 1
    /\ \A i \in 1..N :
           \/ built.vals[i] \in PlainVals
           \/ built.vals[i] \in Links /\ ~Unwrap(built.pre, built.vals[i]).ok

\* An Is or As call that started at the k-th unwrap of the chain passes at
\* most n-k nodes, so makes fewer than n Unwrap steps, and has ended once it
\* has passed them.  (A chain of such arguments has at most n nodes: a call
\* that passes more is going round a cycle, and never ends.)
C8_Bounded ==
    trav.op \in {"Is", "As"} =>
        /\ Len(trav.seen) + Len(walk) - 1 <= N
        /\ Len(trav.seen) + Len(walk) - 1 = N => trav.res # "run"

\* C8, as claimed: for arguments that are plain values and Links that wrap
\* nothing before the call, and that may repeat, Build returns and every Is
\* and As call on the chain ends after finitely many Unwrap steps.
C8_TerminatesRepeats ==
    C8_Args => (built.panic = "" /\ C8_Bounded)

\* C8, amended: the same, for arguments whose Links are pairwise distinct
\* (plain values may repeat) and hold plain values.
C8_TerminatesDistinct ==
    (/\ C8_Args
     /\ \A i, j \in 1..N :
            (i # j /\ built.vals[i] \in Links) => built.vals[i] # built.vals[j]
     /\ \A i \in 1..N :
            built.vals[i] \in Links => heap[built.vals[i].id].v \in PlainVals)
        => (built.panic = "" /\ C8_Bounded)

\* C8 witness: an Is call on a chain of a Link and a repeated plain value
\* passed all three nodes and found no match.
C8_Witness ==
    /\ built.vals = <<LinkV(1), Str("a"), Str("a")>>
    /\ trav.op = "Is" /\ trav.res = "false" /\ Len(trav.seen) = N
    /\ Len(walk) = 1

\* C9: whenever the node Is examines and the target are both semantically
\* nil, Is returns at that node, true if and only if the two have the same
\* declared type.
C9_NilTypeSensitive ==
    trav.op = "Is" =>
        \A j \in 1..Len(trav.seen) :
            (SemNil(trav.seen[j]) /\ SemNil(trav.target)) =>
                /\ j = Len(trav.seen)
                /\ trav.res = IF TypeOf(trav.seen[j]) = TypeOf(trav.target)
                              THEN "true" ELSE "false"

\* C9 witness: Is reached a literal nil by unwrapping and, the target being
\* a nil slice, returned false.
C9_Witness ==
    /\ trav.op = "Is" /\ Len(trav.seen) = 2
    /\ trav.seen[2] = NilV /\ trav.target = SliceV(TRUE)
    /\ trav.res = "false"

\* What Get and Unwrap must return given the calls made so far.
Expected(log) ==
    IF log.any THEN [v |-> log.last, ok |-> TRUE] ELSE [v |-> NilV, ok |-> FALSE]

\* C10: Get returns (nil, false) exactly when Set was never called and else
\* the last argument of Set with true; Wrap returns true; Unwrap of a Link
\* returns not-present exactly when Wrap was never called on it and else the
\* last argument of Wrap, whatever Set calls the Link received.
C10_HolderDistinguishes ==
    /\ HolderGet(holder) = Expected(setLog)
    /\ ret.op = "Get" => [v |-> ret.v, ok |-> ret.ok] = Expected(setLog)
    /\ ret.op = "Wrap" => ret.ok
    /\ \A i \in 1..NLinks : LinkUnwrap(heap[i]) = Expected(wrapLog[i])
    /\ ret.op = "LinkUnwrap" =>
           [v |-> ret.v, ok |-> ret.ok] = Expected(wrapLog[ret.id])

\* C10 witness: Get after Set(nil) returned (nil, true), and a Link that was
\* Set but never wrapped anything reported no predecessor.
C10_Witness ==
    /\ ret.op = "Get" /\ ret.ok /\ ret.v = NilV
    /\ \E i \in 1..NLinks : heap[i].v # NilV /\ ~LinkUnwrap(heap[i]).ok
    /\ \E i \in 1..NLinks : LinkUnwrap(heap[i]) = [v |-> NilV, ok |-> TRUE]

=============================================================================
